---- MODULE Spec2Model ----
(***************************************************************************)
(* A model of linaix: natural-language tasks are turned into shell         *)
(* commands by a text-completion backend and executed.  Two programs are   *)
(* modelled, each with a specification of its own:                         *)
(*   src/linaix.py              direct mode, history replay, aliases       *)
(*   src/linaix_nl_terminal.py  the natural-language terminal loop         *)
(* and the provider wrappers of src/linaix/providers.py, the validators  *)
(* and save_history are specified on their own as well.                    *)
(*                                                                         *)
(* A Python str is a sequence of one-character strings, so that strip(),   *)
(* lower(), startswith(), split(), re.sub() and shlex.split() are computed *)
(* character by character as the code computes them.                       *)
(***************************************************************************)
EXTENDS Integers, Sequences, FiniteSets, TLC

VARIABLES
    config,      \* ~/.linaix/config.json: [auto_run_safe, aliases]
    history,     \* ~/.linaix/history.json: sequence of [input, command]
    pc,          \* position of the running process ("shell": none is running)
    cwd,         \* working directory of the running process
    task,        \* direct mode: the task text of the command line (args.task joined)
    user_input,  \* the task text the pipeline works on
    command,     \* the candidate command of the current attempt
    attempt,     \* direct mode: 1 in the first block of main, 2 in the retry block
    genCalls,    \* calls of generate_command made by this process
    runCalls,    \* calls of the executor made by this process
    request,     \* the last completion request built: [task, cwd, error_context]
    proc,        \* the subprocess last spawned for a command, and whether it still runs
    result,      \* what the executor last returned: (success, error) and its cause
    report,      \* what the pipeline last printed as its status
    turns,       \* natural-language terminal: lines read so far
    vInput,      \* function-level specifications: the argument of the function applied
    vResult,     \* its result
    vCalls,      \* and the number of calls made
    savers       \* concurrent save_history calls: each one's position, entry and copy of the file

vars == <<config, history, pc, cwd, task, user_input, command, attempt, genCalls, runCalls,
          request, proc, result, report, turns, vInput, vResult, vCalls, savers>>

(***************************************************************************)
(* Python str operations                                                   *)
(***************************************************************************)

\* The character ` (a string of the module cannot hold it).
Backtick == "BACKTICK"

\* The characters str.strip() removes and shlex treats as separators.
Whitespace == {" ", "\t", "\n", "\r"}

UpperCase == <<"A", "B", "C", "D", "E", "F", "G", "H", "I", "J", "K", "L", "M",
               "N", "O", "P", "Q", "R", "S", "T", "U", "V", "W", "X", "Y", "Z">>

LowerCase == <<"a", "b", "c", "d", "e", "f", "g", "h", "i", "j", "k", "l", "m",
               "n", "o", "p", "q", "r", "s", "t", "u", "v", "w", "x", "y", "z">>

LowerChar(c) ==
    IF \E i \in 1..Len(UpperCase) : UpperCase[i] = c
    THEN LowerCase[CHOOSE i \in 1..Len(UpperCase) : UpperCase[i] = c]
    ELSE c

\* str.lower()
Lower(s) == [i \in 1..Len(s) |-> LowerChar(s[i])]

IsBlank(s) == \A i \in 1..Len(s) : s[i] \in Whitespace

\* str.strip()
Strip(s) ==
    IF IsBlank(s) THEN <<>>
    ELSE LET first == CHOOSE i \in 1..Len(s) :
                          /\ s[i] \notin Whitespace
                          /\ \A j \in 1..(i - 1) : s[j] \in Whitespace
             last  == CHOOSE i \in 1..Len(s) :
                          /\ s[i] \notin Whitespace
                          /\ \A j \in (i + 1)..Len(s) : s[j] \in Whitespace
         IN  SubSeq(s, first, last)

\* s[i:].startswith(p), i counted from 1
StartsWithAt(s, i, p) ==
    /\ i + Len(p) - 1 <= Len(s)
    /\ \A k \in 1..Len(p) : s[i + k - 1] = p[k]

\* str.startswith
StartsWith(s, p) == StartsWithAt(s, 1, p)

\* p in s
Contains(s, p) == \E i \in 1..(Len(s) + 1) : StartsWithAt(s, i, p)

\* s.split(" ", 1): the text before the first space and, when there is a space, the
\* text after it.
SplitFirstSpace(s) ==
    IF \E i \in 1..Len(s) : s[i] = " "
    THEN LET i == CHOOSE k \in 1..Len(s) : s[k] = " " /\ \A j \in 1..(k - 1) : s[j] # " "
         IN  <<SubSeq(s, 1, i - 1), SubSeq(s, i + 1, Len(s))>>
    ELSE <<s>>

\* n copies of the character c
Repeat(c, n) == [i \in 1..n |-> c]

(***************************************************************************)
(* Results of the validators: a value or the exception raised.             *)
(***************************************************************************)

Ok(v) == [kind |-> "ok", value |-> v, msg |-> "none"]

Raise(exception, msg) == [kind |-> exception, value |-> <<>>, msg |-> msg]

(***************************************************************************)
(* src/linaix_nl_terminal.py: limits and command sets                      *)
(***************************************************************************)

MAX_INPUT_LENGTH == 1000

MAX_COMMAND_LENGTH == 500

COMMAND_TIMEOUT == 30

SAFE_COMMANDS ==
    { <<"c", "d">>, <<"l", "s">>, <<"p", "w", "d">>, <<"m", "k", "d", "i", "r">>, <<"t", "o", "u", "c", "h">>, <<"c", "a", "t">>, <<"e", "c", "h", "o">>, <<"h", "e", "a", "d">>, <<"t", "a", "i", "l">>,
      <<"g", "r", "e", "p">>, <<"f", "i", "n", "d">>, <<"w", "c">>, <<"s", "o", "r", "t">>, <<"u", "n", "i", "q">>, <<"c", "u", "t">>, <<"t", "r">>, <<"s", "e", "d">>, <<"a", "w", "k">>,
      <<"d", "f">>, <<"d", "u">>, <<"f", "r", "e", "e">>, <<"p", "s">>, <<"t", "o", "p">>, <<"h", "t", "o", "p">>, <<"w", "h", "o">>, <<"w", "h", "o", "a", "m", "i">>, <<"d", "a", "t", "e">>,
      <<"c", "a", "l">>, <<"u", "p", "t", "i", "m", "e">>, <<"u", "n", "a", "m", "e">>, <<"h", "o", "s", "t", "n", "a", "m", "e">>, <<"w", "h", "i", "c", "h">>, <<"w", "h", "e", "r", "e", "i", "s">>, <<"l", "o", "c", "a", "t", "e">>,
      <<"f", "i", "l", "e">>, <<"s", "t", "a", "t">>, <<"c", "h", "m", "o", "d">>, <<"c", "h", "o", "w", "n">>, <<"c", "p">>, <<"m", "v">>, <<"l", "n">>, <<"r", "m">>, <<"r", "m", "d", "i", "r">>,
      <<"t", "a", "r">>, <<"g", "z", "i", "p">>, <<"g", "u", "n", "z", "i", "p">>, <<"z", "i", "p">>, <<"u", "n", "z", "i", "p">>, <<"w", "g", "e", "t">>, <<"c", "u", "r", "l">>, <<"g", "i", "t">>,
      <<"a", "p", "t">>, <<"a", "p", "t", "-", "g", "e", "t">>, <<"d", "p", "k", "g">>, <<"s", "n", "a", "p">>, <<"p", "i", "p">>, <<"p", "y", "t", "h", "o", "n">>, <<"p", "y", "t", "h", "o", "n", "3">>,
      <<"n", "o", "d", "e">>, <<"n", "p", "m">>, <<"n", "p", "x">>, <<"d", "o", "c", "k", "e", "r">>, <<"d", "o", "c", "k", "e", "r", "-", "c", "o", "m", "p", "o", "s", "e">> }

DANGEROUS_COMMANDS ==
    { <<"r", "m">>, <<"d", "d">>, <<"c", "h", "m", "o", "d">>, <<"c", "h", "o", "w", "n">>, <<"m", "k", "f", "s">>, <<"f", "d", "i", "s", "k">>, <<"p", "a", "r", "t", "e", "d">>, <<"m", "o", "u", "n", "t">>,
      <<"u", "m", "o", "u", "n", "t">>, <<"s", "h", "u", "t", "d", "o", "w", "n">>, <<"r", "e", "b", "o", "o", "t">>, <<"h", "a", "l", "t">>, <<"p", "o", "w", "e", "r", "o", "f", "f">>, <<"k", "i", "l", "l">>, <<"k", "i", "l", "l", "a", "l", "l">>,
      <<"p", "k", "i", "l", "l">>, <<"s", "y", "s", "t", "e", "m", "c", "t", "l">>, <<"s", "e", "r", "v", "i", "c", "e">>, <<"i", "p", "t", "a", "b", "l", "e", "s">>, <<"u", "f", "w">>, <<"f", "i", "r", "e", "w", "a", "l", "l", "-", "c", "m", "d">> }

BLOCKED_COMMANDS ==
    { <<"s", "u", "d", "o">>, <<"s", "u">>, <<"d", "o", "a", "s">>, <<"p", "k", "e", "x", "e", "c">>, <<"g", "k", "s", "u", "d", "o">>, <<"k", "d", "e", "s", "u", "d", "o">>, <<"x", "d", "g", "-", "s", "u", "d", "o">> }

(***************************************************************************)
(* src/linaix_nl_terminal.py: validate_input                               *)
(***************************************************************************)

\* re.sub(r'[<>"|&`$]', '', user_input.strip())
Sanitize(input) ==
    SelectSeq(Strip(input), LAMBDA c : c \notin {"<", ">", "\"", "|", "&", Backtick, "$"})

\* re.search(open + '.*' + close, s) for one-character open and close: '.' matches
\* no newline.
MatchesSpan(s, open, close) ==
    \E i \in 1..Len(s) :
        /\ s[i] = open
        /\ \E j \in (i + 1)..Len(s) :
               /\ s[j] = close
               /\ \A k \in (i + 1)..(j - 1) : s[k] # "\n"

\* A mutant of MatchesDangerousPattern: the parenthesis pattern matches across lines
\* only when nothing stands between the parentheses, and a backslash matches nothing.
MatchesDangerousPattern_weaker(s) ==
    \/ \E i \in 1..Len(s) : s[i] \in {";", "&", "|", Backtick, "$"}
    \/ \E i \in 1..(Len(s) - 1) : s[i] = "(" /\ s[i + 1] = ")"
    \/ MatchesSpan(s, "<", ">")

\* re.search(pattern, sanitized) for one of dangerous_patterns
MatchesDangerousPattern(s) ==
    \/ \E i \in 1..Len(s) : s[i] \in {";", "&", "|", Backtick, "$"}      \* [;&|`$]
    \/ MatchesSpan(s, "(", ")")                                      \* \(.*\)
    \/ \E i \in 1..(Len(s) - 1) :                                    \* \$\{.*\}
           /\ s[i] = "$" /\ s[i + 1] = "{"
           /\ \E j \in (i + 2)..Len(s) :
                  /\ s[j] = "}"
                  /\ \A k \in (i + 2)..(j - 1) : s[k] # "\n"
    \/ MatchesSpan(s, "<", ">")                                      \* <.*>
    \/ \E i \in 1..Len(s) : s[i] = "\\"                              \* \\

\* A mutant of validate_input: an input over the limit is cut to the limit and accepted.
validate_input_truncating(input) ==
    IF input = <<>>
    THEN Raise("ValidationError", "empty")
    ELSE LET kept == IF Len(input) > MAX_INPUT_LENGTH
                     THEN SubSeq(input, 1, MAX_INPUT_LENGTH) ELSE input
         IN  IF MatchesDangerousPattern(Sanitize(kept))
             THEN Raise("ValidationError", "dangerous")
             ELSE Ok(Sanitize(kept))

validate_input(input) ==
    LET sanitized == Sanitize(input)
    IN  IF input = <<>>
        THEN Raise("ValidationError", "empty")
        ELSE IF Len(input) > MAX_INPUT_LENGTH
        THEN Raise("ValidationError", "too_long")
        ELSE IF MatchesDangerousPattern(sanitized)
        THEN Raise("ValidationError", "dangerous")
        ELSE Ok(sanitized)

(***************************************************************************)
(* src/linaix_nl_terminal.py: validate_command, with shlex.split           *)
(***************************************************************************)

Quotes == {"'", "\""}

\* shlex.split(s): the POSIX word splitter of the standard library, as the state
\* machine of shlex.read_token with whitespace_split and without comments.  state
\* is "ws" between words, "word" inside one, a quote character inside quotes, and
\* "esc" after a backslash (escapedstate is where it returns to).  ShlexStep reads
\* one character.
ShlexStep(st, c) ==
    CASE st.state = "ws" ->
           IF c \in Whitespace THEN st
           ELSE IF c = "\\" THEN [st EXCEPT !.state = "esc", !.escapedstate = "word"]
           ELSE IF c \in Quotes THEN [st EXCEPT !.state = c]
           ELSE [st EXCEPT !.state = "word", !.token = <<c>>]
      [] st.state \in Quotes ->
           IF c = st.state THEN [st EXCEPT !.state = "word"]
           ELSE IF c = "\\" /\ st.state = "\""
           THEN [st EXCEPT !.state = "esc", !.escapedstate = st.state]
           ELSE [st EXCEPT !.token = Append(@, c)]
      [] st.state = "esc" ->
           LET kept == IF st.escapedstate \in Quotes /\ c # "\\" /\ c # st.escapedstate
                       THEN Append(st.token, "\\") ELSE st.token
           IN  [st EXCEPT !.state = st.escapedstate, !.token = Append(kept, c)]
      [] OTHER ->
           IF c \in Whitespace
           THEN [st EXCEPT !.state = "ws", !.token = <<>>, !.tokens = Append(@, st.token)]
           ELSE IF c \in Quotes THEN [st EXCEPT !.state = c]
           ELSE IF c = "\\" THEN [st EXCEPT !.state = "esc", !.escapedstate = "word"]
           ELSE [st EXCEPT !.token = Append(@, c)]

ShlexStates == {"ws", "word", "esc"} \cup Quotes

\* The state after reading s[lo..hi] from state st.  The range is halved and st is
\* looked at before it is used, so that the evaluation nests to the logarithm of
\* the length and not to the length.
RECURSIVE ShlexRun(_, _, _, _)
ShlexRun(s, lo, hi, st) ==
    IF lo > hi \/ st.state \notin ShlexStates THEN st
    ELSE IF lo = hi THEN ShlexStep(st, s[lo])
    ELSE LET mid == (lo + hi) \div 2
         IN  ShlexRun(s, mid + 1, hi, ShlexRun(s, lo, mid, st))

\* At the end of the text: a word being read is the last token; an open quote or a
\* dangling backslash raises ValueError.
shlex_split(s) ==
    LET end == ShlexRun(s, 1, Len(s),
                        [state |-> "ws", escapedstate |-> "word", token |-> <<>>, tokens |-> <<>>])
    IN  CASE end.state = "ws"   -> [ok |-> TRUE, parts |-> end.tokens]
          [] end.state = "word" -> [ok |-> TRUE, parts |-> Append(end.tokens, end.token)]
          [] OTHER              -> [ok |-> FALSE, parts |-> <<>>]

\* A mutant of validate_command: the first token is compared as it is written.
validate_command_caseSensitive(cmd) ==
    IF cmd = <<>>
    THEN Raise("SecurityError", "invalid")
    ELSE IF Len(cmd) > MAX_COMMAND_LENGTH
    THEN Raise("SecurityError", "too_long")
    ELSE LET split == shlex_split(cmd) IN
         IF ~split.ok
         THEN Raise("SecurityError", "syntax")
         ELSE IF split.parts = <<>>
         THEN Raise("SecurityError", "empty")
         ELSE IF split.parts[1] \in BLOCKED_COMMANDS
         THEN Raise("SecurityError", "blocked")
         ELSE Ok(Strip(cmd))

validate_command(cmd) ==
    IF cmd = <<>>
    THEN Raise("SecurityError", "invalid")
    ELSE IF Len(cmd) > MAX_COMMAND_LENGTH
    THEN Raise("SecurityError", "too_long")
    ELSE LET split == shlex_split(cmd) IN
         IF ~split.ok
         THEN Raise("SecurityError", "syntax")
         ELSE IF split.parts = <<>>
         THEN Raise("SecurityError", "empty")
         ELSE IF Lower(split.parts[1]) \in BLOCKED_COMMANDS
         THEN Raise("SecurityError", "blocked")
         ELSE Ok(Strip(cmd))

\* base_command = parts[0].lower(); empty when the command has no first word.
base_command(cmd) ==
    LET split == shlex_split(cmd)
    IN  IF split.ok /\ split.parts # <<>> THEN Lower(split.parts[1]) ELSE <<>>

\* The sets validate_command finds base_command in (lines 136-143).
Classifications(token) ==
    {c \in {"blocked", "dangerous", "safe"} :
        \/ c = "blocked" /\ token \in BLOCKED_COMMANDS
        \/ c = "dangerous" /\ token \in DANGEROUS_COMMANDS
        \/ c = "safe" /\ token \in SAFE_COMMANDS}

(***************************************************************************)
(* src/linaix.py: history                                                  *)
(***************************************************************************)

HISTORY_LIMIT == 100

\* A mutant of LastEntries: the first `limit` entries are kept, so that a full
\* history drops the new entry instead of the oldest.
LastEntries_keepsOldest(entries, limit) ==
    SubSeq(entries, 1, IF Len(entries) > limit THEN limit ELSE Len(entries))

\* entries[-limit:]
LastEntries(entries, limit) ==
    SubSeq(entries, IF Len(entries) > limit THEN Len(entries) - limit + 1 ELSE 1, Len(entries))

\* save_history: the file is read (an absent file is the empty list), the entry is
\* appended and the last HISTORY_LIMIT entries are written back.
save_history(file, input, cmd) ==
    LastEntries(Append(file, [input |-> input, command |-> cmd]), HISTORY_LIMIT)

\* int(index): optional sign and decimal digits, surrounding whitespace ignored;
\* anything else raises ValueError.
Digits == <<"0", "1", "2", "3", "4", "5", "6", "7", "8", "9">>

IsDigit(c) == \E d \in 1..Len(Digits) : Digits[d] = c

DigitValue(c) == (CHOOSE d \in 1..Len(Digits) : Digits[d] = c) - 1

RECURSIVE DecimalValue(_)
DecimalValue(ds) ==
    IF ds = <<>> THEN 0
    ELSE 10 * DecimalValue(SubSeq(ds, 1, Len(ds) - 1)) + DigitValue(ds[Len(ds)])

ParseInt(text) ==
    LET t      == Strip(text)
        signed == t # <<>> /\ t[1] \in {"+", "-"}
        ds     == IF signed THEN Tail(t) ELSE t
    IN  IF ds # <<>> /\ \A i \in 1..Len(ds) : IsDigit(ds[i])
        THEN [ok |-> TRUE, value |-> IF signed /\ t[1] = "-" THEN 0 - DecimalValue(ds)
                                                             ELSE DecimalValue(ds)]
        ELSE [ok |-> FALSE, value |-> 0]

\* get_history_command: history[int(index)], a negative index counting from the
\* end as Python lists do; ValueError and IndexError give (None, None).
get_history_command(file, index) ==
    LET i == ParseInt(index)
        n == Len(file)
    IN  IF ~i.ok THEN [found |-> FALSE, command |-> <<>>, input |-> <<>>]
        ELSE IF i.value >= 0 /\ i.value < n
        THEN [found |-> TRUE, command |-> file[i.value + 1].command,
              input |-> file[i.value + 1].input]
        ELSE IF i.value < 0 /\ 0 - i.value <= n
        THEN [found |-> TRUE, command |-> file[n + i.value + 1].command,
              input |-> file[n + i.value + 1].input]
        ELSE [found |-> FALSE, command |-> <<>>, input |-> <<>>]

(***************************************************************************)
(* The text-completion backend and the parsing of its response             *)
(***************************************************************************)

\* An ANSI colour sequence is kept as one element of the text.
ANSI_RED == <<"ESC[1;31m">>

ANSI_RESET == <<"ESC[0m">>

Fence == <<Backtick, Backtick, Backtick>>

FenceBash == <<Backtick, Backtick, Backtick, "b", "a", "s", "h", "\n">>

ExplanationMark == <<"\n", "[", "E", "X", "P", "L", "A", "N", "A", "T", "I", "O", "N", ":">>

\* re.sub(r'```bash\n|```|\n\[EXPLANATION:.*', '', text), read left to right: skip
\* counts the characters of a match still to drop, line says that the rest of the
\* line is dropped ('.*' stops at a newline).
ReSubStep(text, st, i) ==
    IF st.skip > 0 THEN [st EXCEPT !.skip = @ - 1]
    ELSE IF st.line /\ text[i] # "\n" THEN st
    ELSE IF StartsWithAt(text, i, FenceBash)
    THEN [st EXCEPT !.skip = Len(FenceBash) - 1, !.line = FALSE]
    ELSE IF StartsWithAt(text, i, Fence)
    THEN [st EXCEPT !.skip = Len(Fence) - 1, !.line = FALSE]
    ELSE IF StartsWithAt(text, i, ExplanationMark)
    THEN [st EXCEPT !.skip = Len(ExplanationMark) - 1, !.line = TRUE]
    ELSE [st EXCEPT !.out = Append(@, text[i]), !.line = FALSE]

RECURSIVE ReSubRun(_, _, _, _)
ReSubRun(text, lo, hi, st) ==
    IF lo > hi \/ st.skip < 0 THEN st
    ELSE IF lo = hi THEN ReSubStep(text, st, lo)
    ELSE LET mid == (lo + hi) \div 2
         IN  ReSubRun(text, mid + 1, hi, ReSubRun(text, lo, mid, st))

\* text = response.text.strip(); command = re.sub(...).strip()
CleanCommand(response_text) ==
    LET text == Strip(response_text)
    IN  Strip(ReSubRun(text, 1, Len(text), [skip |-> 0, line |-> FALSE, out |-> <<>>]).out)

\* What the backend call of one synthesis does: it raises, or returns a text.
Responded(text) == [ok |-> TRUE, text |-> text]

BackendFailed(msg) == [ok |-> FALSE, text |-> msg]

ErrorWord == <<"E", "r", "r", "o", "r">>

\* generate_command of src/linaix.py: the command, or an error text in its place.
generate_command(outcome) ==
    LET cmd == CleanCommand(outcome.text)
    IN  IF ~outcome.ok
        THEN ANSI_RED \o <<"E", "r", "r", "o", "r", ":", " ", "C", "o", "u", "l", "d", " ", "n", "o", "t", " ", "g", "e", "n", "e", "r", "a", "t", "e", " ", "c", "o", "m", "m", "a", "n", "d", ":", " ">> \o outcome.text \o ANSI_RESET
        ELSE IF cmd # <<>> THEN cmd
        ELSE ANSI_RED \o <<"E", "r", "r", "o", "r", ":", " ", "N", "o", " ", "v", "a", "l", "i", "d", " ", "c", "o", "m", "m", "a", "n", "d", " ", "g", "e", "n", "e", "r", "a", "t", "e", "d", ".">> \o ANSI_RESET

\* generate_command of src/linaix_nl_terminal.py after the backend call: the
\* validated command, or None (some = FALSE) with the exception that was caught.
nl_generate_command(outcome) ==
    IF ~outcome.ok
    THEN [some |-> FALSE, command |-> <<>>, caught |-> "Exception"]
    ELSE IF CleanCommand(outcome.text) = <<>>
    THEN [some |-> FALSE, command |-> <<>>, caught |-> "none"]
    ELSE LET v == validate_command(CleanCommand(outcome.text))
         IN  IF v.kind = "ok"
             THEN [some |-> TRUE, command |-> v.value, caught |-> "none"]
             ELSE [some |-> FALSE, command |-> <<>>, caught |-> v.kind]

(***************************************************************************)
(* The working directory                                                   *)
(***************************************************************************)

HOME == <<"/", "h", "o", "m", "e", "/", "u">>

\* The directories of the file system.
ExistingDirs == {HOME, <<"/", "t", "m", "p">>}

\* os.path.expanduser
expanduser(path) ==
    IF path = <<"~">> THEN HOME
    ELSE IF StartsWith(path, <<"~", "/">>) THEN HOME \o SubSeq(path, 2, Len(path))
    ELSE path

\* command.strip().startswith("cd ")
IsCdCommand(cmd) == StartsWith(Strip(cmd), <<"c", "d", " ">>)

\* new_dir = command.strip().split(" ", 1)[1]
CdTarget(cmd) == SplitFirstSpace(Strip(cmd))[2]


(***************************************************************************)
(* src/linaix/providers.py                                                 *)
(***************************************************************************)

\* An attribute read with getattr(resp, name, None): a text or None.
NoText == [some |-> FALSE, text |-> <<>>]

Text(t) == [some |-> TRUE, text |-> t]

\* `if not text` is false of a text that is neither None nor empty.
Truthy(x) == x.some /\ x.text # <<>>

\* A mutant of ExceptException: the body's exceptions leave the function as they are.
ExceptException_absent(outcome) == outcome

\* except Exception as exc: raise ProviderError(f"... provider failed: {exc}")
ExceptException(outcome) ==
    IF outcome.kind = "ok" THEN outcome ELSE Raise("ProviderError", outcome.kind)

\* What the backend does in one call: whether the library imports, the client is
\* built, the request returns, client.close() returns, and what the response holds.
GoogleCalls ==
    [provider : {"google"}, library : {"present", "missing"}, client : {"ok", "raises"},
     call : {"returns", "auth", "quota", "network"}, close : {"ok", "raises"},
     text : {NoText, Text(<<>>), Text(<<"l", "s">>), Text(<<" ">>)}]

\* generate_with_google: the body of the outer try, then its except clause.  An
\* exception of client.close() is swallowed in the finally clause.
generate_with_google(env) ==
    ExceptException(
        IF env.library = "missing" THEN Raise("ImportError", "google.genai")
        ELSE IF env.client = "raises" THEN Raise("ValueError", "client")
        ELSE IF env.call # "returns" THEN Raise("APIError", env.call)
        ELSE IF ~Truthy(env.text) THEN Raise("ProviderError", "no_text")
        ELSE Ok(env.text.text))

\* resp.output[0].content: the blocks of the first output item; ok is FALSE when
\* reading them raises (no output item, no content).
NoBlocks == [ok |-> FALSE, items |-> <<>>]

Blocks(items) == [ok |-> TRUE, items |-> items]

RECURSIVE JoinBlocks(_)
\* "".join([b.text for b in content if getattr(b, "text", None)])
JoinBlocks(items) ==
    IF items = <<>> THEN <<>>
    ELSE (IF Truthy(Head(items)) THEN Head(items).text ELSE <<>>) \o JoinBlocks(Tail(items))

OpenAICalls ==
    [provider : {"openai"}, library : {"new", "legacy", "missing"}, client : {"ok", "raises"},
     call : {"returns", "auth", "quota", "network"},
     output_text : {NoText, Text(<<>>), Text(<<"l", "s">>)},
     blocks : {NoBlocks, Blocks(<<>>), Blocks(<<NoText, Text(<<>>)>>),
               Blocks(<<Text(<<"l">>), NoText, Text(<<"s">>)>>)},
     content : {NoText, Text(<<>>), Text(<<" ">>), Text(<<"l", "s", "\n">>)}]

\* The try block of generate_with_openai with the OpenAI client (lines 38-50).
openai_responses(env) ==
    LET joined == IF env.blocks.ok THEN JoinBlocks(env.blocks.items) ELSE <<>>
        text   == IF Truthy(env.output_text) THEN env.output_text.text ELSE joined
    IN  IF env.client = "raises" THEN Raise("OpenAIError", "client")
        ELSE IF env.call # "returns" THEN Raise("APIError", env.call)
        ELSE IF text = <<>> THEN Raise("ProviderError", "no_text")
        ELSE Ok(text)

\* The except ImportError block (lines 51-62): the legacy interface.  A content
\* of None has no strip().
openai_legacy(env) ==
    IF env.library = "missing" THEN Raise("ImportError", "openai")
    ELSE IF env.call # "returns" THEN Raise("APIError", env.call)
    ELSE IF ~env.content.some THEN Raise("AttributeError", "strip")
    ELSE IF Strip(env.content.text) = <<>> THEN Raise("ProviderError", "empty_text")
    ELSE Ok(Strip(env.content.text))

\* generate_with_openai
generate_with_openai(env) ==
    ExceptException(IF env.library = "new" THEN openai_responses(env) ELSE openai_legacy(env))
(***************************************************************************)
(* The running process.  Its handlers are written as functions from the    *)
(* state of the process (a record st of the variables below) to the state  *)
(* at its next blocking point: the backend call, the operator's answer,    *)
(* the child's exit.                                                       *)
(***************************************************************************)

Cur ==
    [pc |-> pc, cwd |-> cwd, task |-> task, user_input |-> user_input,
     command |-> command, attempt |-> attempt, genCalls |-> genCalls,
     runCalls |-> runCalls, request |-> request, proc |-> proc, result |-> result,
     report |-> report, turns |-> turns, history |-> history]

Becomes(st) ==
    /\ pc' = st.pc
    /\ cwd' = st.cwd
    /\ task' = st.task
    /\ user_input' = st.user_input
    /\ command' = st.command
    /\ attempt' = st.attempt
    /\ genCalls' = st.genCalls
    /\ runCalls' = st.runCalls
    /\ request' = st.request
    /\ proc' = st.proc
    /\ result' = st.result
    /\ report' = st.report
    /\ turns' = st.turns
    /\ history' = st.history
    /\ savers' = savers

NoRequest ==
    [made |-> FALSE, task |-> <<>>, cwd |-> <<>>, error_context |-> <<>>, clause |-> FALSE]

NoProc ==
    [running |-> FALSE, cmd |-> <<>>, argv |-> <<>>, shell |-> FALSE, timeout |-> 0,
     duration |-> "none", confirmed |-> FALSE]

NoResult ==
    [success |-> FALSE, error |-> <<>>, cause |-> "none", handler |-> "none",
     rc |-> 0, stderr |-> <<>>]

\* The pair (success, error) an executor returns.  cause is what happened (the
\* child's exit, a chdir, a timeout, a failed spawn, a rejected command) and
\* handler the place that built the pair: the return statement or the except
\* clause that caught the exception.
Returned(success, error, cause, handler, rc, stderr) ==
    [success |-> success, error |-> error, cause |-> cause, handler |-> handler,
     rc |-> rc, stderr |-> stderr]

\* f"{ANSI_RED}Error: {e}{ANSI_RESET}"
ErrorText(e) == ANSI_RED \o <<"E", "r", "r", "o", "r", ":", " ">> \o e \o ANSI_RESET

\* The process ends, having last printed `status`.  Its locals end with it; the
\* files, the status and the executor's last result are kept.
Exit(st, status) ==
    [st EXCEPT !.pc = "exited", !.report = status, !.cwd = HOME, !.task = <<>>,
               !.user_input = <<>>, !.command = <<>>, !.attempt = 0, !.genCalls = 0,
               !.runCalls = 0, !.request = NoRequest, !.proc = NoProc, !.turns = 0]

\* The prompt of a synthesis: the task, os.getcwd() as it is now, and the
\* correction clause when error_context is not empty.
Prompt(st, input, error_context) ==
    [made |-> TRUE, task |-> input, cwd |-> st.cwd, error_context |-> error_context,
     clause |-> error_context # <<>>]

\* The cd branch of an executor: os.chdir(os.path.expanduser(new_dir)); an OSError
\* is returned as the error.
ChangeDirectory(st, cmd) ==
    IF expanduser(CdTarget(cmd)) \in ExistingDirs
    THEN [st EXCEPT !.cwd = expanduser(CdTarget(cmd)),
                    !.result = Returned(TRUE, <<>>, "chdir", "return", 0, <<>>)]
    ELSE [st EXCEPT !.result = Returned(FALSE, ErrorText(<<"N", "o", " ", "s", "u", "c", "h", " ", "f", "i", "l", "e", " ", "o", "r", " ", "d", "i", "r", "e", "c", "t", "o", "r", "y">>),
                                        "chdir", "Exception", 0, <<>>)]

\* A mutant of Completed: captured stderr text makes the execution a failure.
Completed_stderrFails(rc, stderr) ==
    Returned(rc = 0 /\ Strip(stderr) = <<>>, Strip(stderr), "exit", "return", rc, stderr)

\* result.returncode == 0, result.stderr.strip()
Completed(rc, stderr) == Returned(rc = 0, Strip(stderr), "exit", "return", rc, stderr)

(***************************************************************************)
(* src/linaix.py: main, direct mode and history replay                     *)
(***************************************************************************)

\* generate_command is called: its prompt is built and the backend awaited.
CallGenerate(st, error_context) ==
    [st EXCEPT !.pc = "generate", !.genCalls = @ + 1,
               !.request = Prompt(st, st.user_input, error_context)]

\* A mutant of RetryDue: a failed retry is retried again.
RetryDue_always(st) == st.attempt >= 1

\* main retries in the else branch of its first block only.
RetryDue(st) == st.attempt = 1

\* main, after run_command_normal returned st.result: success is reported; a
\* failure of the first attempt asks for an alternative with the error text as
\* error context; replay (attempt 0) and the retry report and end.
main_after_run(st) ==
    IF st.result.success THEN Exit(st, "Success")
    ELSE IF RetryDue(st) THEN CallGenerate([st EXCEPT !.attempt = 2], st.result.error)
    ELSE Exit(st, "Failed")

\* run_command_normal up to its first blocking point: the cd branch returns at
\* once, any other command waits for the operator's answer.
run_command_normal(st, cmd) ==
    IF IsCdCommand(cmd)
    THEN main_after_run(ChangeDirectory([st EXCEPT !.runCalls = @ + 1, !.command = cmd], cmd))
    ELSE [st EXCEPT !.runCalls = @ + 1, !.command = cmd, !.pc = "confirm"]

\* main, after generate_command returned: an error text is printed and main
\* returns; a command is saved to the history and run.
main_after_generate(st, outcome) ==
    LET cmd == generate_command(outcome)
    IN  IF Contains(cmd, ErrorWord)
        THEN Exit(st, "SynthesisError")
        ELSE run_command_normal(
                 [st EXCEPT !.history = save_history(@, st.user_input, cmd)], cmd)

\* config["aliases"].get(user_input): an alias with a non-empty task replaces the text.
ResolveAlias(aliases, text) ==
    IF text \in DOMAIN aliases /\ aliases[text] # <<>> THEN aliases[text] ELSE text

\* main with a task on the command line (lines 436-442).
main_task(st, aliases, text) ==
    IF text = <<>>
    THEN Exit(st, "Help")
    ELSE CallGenerate([st EXCEPT !.task = text, !.user_input = ResolveAlias(aliases, text),
                                 !.attempt = 1, !.cwd = HOME], <<>>)

\* main with --reuse (lines 414-428).
main_reuse(st, index) ==
    LET entry == get_history_command(st.history, index)
    IN  IF entry.found /\ entry.command # <<>>
        THEN run_command_normal([st EXCEPT !.attempt = 0, !.cwd = HOME], entry.command)
        ELSE Exit(st, "InvalidIndex")

\* confirm in ['y', 'yes'] for confirm = input(...).strip().lower()
Affirmative(answer) == Lower(Strip(answer)) \in {<<"y">>, <<"y", "e", "s">>}

\* run_command_normal after the operator's answer: on y/yes the command goes to
\* subprocess.run(command, shell=True, ...), which has no timeout; any other
\* answer ends the process (sys.exit(0)).  start is what the spawn does: it raises,
\* or the child runs and exits ("exits") or never does ("never").
run_command_normal_answered(st, answer, start) ==
    IF ~Affirmative(answer) THEN Exit(st, "NotExecuted")
    ELSE IF start = "raises"
    THEN main_after_run([st EXCEPT !.result =
             Returned(FALSE, ErrorText(<<"s", "p", "a", "w", "n", " ", "f", "a", "i", "l", "e", "d">>), "spawn_error", "Exception", 0, <<>>)])
    ELSE [st EXCEPT !.pc = "exec",
                    !.proc = [running |-> TRUE, cmd |-> st.command, argv |-> <<>>,
                              shell |-> TRUE, timeout |-> 0, duration |-> start,
                              confirmed |-> TRUE]]

\* run_command_normal after the child exited.
run_command_normal_exited(st, rc, stderr) ==
    main_after_run([st EXCEPT !.proc.running = FALSE, !.result = Completed(rc, stderr)])

(***************************************************************************)
(* src/linaix.py: manage_aliases                                           *)
(***************************************************************************)

\* config["aliases"][name] = task
AliasAdded(aliases, name, text) ==
    [n \in DOMAIN aliases \cup {name} |-> IF n = name THEN text ELSE aliases[n]]

\* del config["aliases"][name]
AliasRemoved(aliases, name) == [n \in DOMAIN aliases \ {name} |-> aliases[n]]

(***************************************************************************)
(* src/linaix_nl_terminal.py: nl_terminal                                  *)
(***************************************************************************)

\* nl_terminal, after run_command returned: the status is printed and the loop
\* reads the next line.
nl_after_run(st) ==
    [st EXCEPT !.pc = "nl_prompt",
               !.report = IF st.result.success THEN "Success" ELSE "Failed"]

\* The loop prints `status` and reads the next line.
NlContinue(st, status) == [st EXCEPT !.pc = "nl_prompt", !.report = status]

\* One line read by nl_terminal (lines 414-429), up to the backend call inside
\* generate_command, which validates its argument once more (line 243).
nl_read_line(st, line) ==
    LET text   == Strip(line)
        fresh  == [st EXCEPT !.user_input = text, !.command = <<>>, !.request = NoRequest,
                             !.proc = NoProc, !.result = NoResult, !.turns = @ + 1]
        first  == validate_input(text)
        second == validate_input(first.value)
    IN  IF text = <<>> THEN NlContinue(fresh, "Skipped")
        ELSE IF Lower(text) \in {<<"e", "x", "i", "t">>, <<"q", "u", "i", "t">>} THEN Exit(fresh, "Goodbye")
        ELSE IF first.kind # "ok" THEN NlContinue(fresh, "InvalidInput")
        ELSE IF second.kind # "ok"
        THEN NlContinue([fresh EXCEPT !.genCalls = @ + 1], "NoCommand")
        ELSE [fresh EXCEPT !.pc = "nl_generate", !.genCalls = @ + 1,
                           !.request = Prompt(st, second.value, <<>>)]

\* secure_subprocess_run: the command is validated again and its words are handed
\* to subprocess.run(cmd_parts, timeout=COMMAND_TIMEOUT); every exception of the
\* spawn is raised again as SecurityError.
secure_subprocess_run(st, cmd, start) ==
    LET validated == validate_command(cmd)
    IN  IF validated.kind # "ok"
        THEN nl_after_run([st EXCEPT !.result =
                 Returned(FALSE, ErrorText(<<"C", "o", "m", "m", "a", "n", "d", " ", "r", "e", "j", "e", "c", "t", "e", "d">>), "rejected", "SecurityError",
                          0, <<>>)])
        ELSE IF start = "raises"
        THEN nl_after_run([st EXCEPT !.result =
                 Returned(FALSE,
                          ErrorText(<<"C", "o", "m", "m", "a", "n", "d", " ", "e", "x", "e", "c", "u", "t", "i", "o", "n", " ", "f", "a", "i", "l", "e", "d", ":", " ">> \o <<"N", "o", " ", "s", "u", "c", "h", " ", "f", "i", "l", "e", " ", "o", "r", " ", "d", "i", "r", "e", "c", "t", "o", "r", "y">>),
                          "spawn_error", "SecurityError", 0, <<>>)])
        ELSE [st EXCEPT !.pc = "nl_exec",
                        !.proc = [running |-> TRUE, cmd |-> cmd,
                                  argv |-> shlex_split(validated.value).parts,
                                  shell |-> FALSE, timeout |-> COMMAND_TIMEOUT,
                                  duration |-> start, confirmed |-> FALSE]]

\* run_command up to its first blocking point.
run_command(st, cmd, start) ==
    IF IsCdCommand(cmd)
    THEN nl_after_run(ChangeDirectory([st EXCEPT !.runCalls = @ + 1, !.command = cmd], cmd))
    ELSE secure_subprocess_run([st EXCEPT !.runCalls = @ + 1, !.command = cmd], cmd, start)

\* nl_terminal, after generate_command returned (lines 431-443).
nl_after_generate(st, outcome, start) ==
    LET generated == nl_generate_command(outcome)
    IN  IF ~generated.some
        THEN NlContinue(st, "NoCommand")
        ELSE run_command(st, generated.command, start)

\* run_command after the child exited within the timeout.
run_command_exited(st, rc, stderr) ==
    nl_after_run([st EXCEPT !.proc.running = FALSE, !.result = Completed(rc, stderr)])

\* run_command when the timeout expires: subprocess.run kills the child and raises
\* TimeoutExpired inside secure_subprocess_run, whose `except Exception` raises it
\* again as SecurityError; run_command's `except SecurityError` returns it.
run_command_timed_out(st) ==
    nl_after_run([st EXCEPT !.proc.running = FALSE, !.result =
        Returned(FALSE, ErrorText(<<"C", "o", "m", "m", "a", "n", "d", " ", "e", "x", "e", "c", "u", "t", "i", "o", "n", " ", "f", "a", "i", "l", "e", "d", ":", " ">> \o <<"t", "i", "m", "e", "d", " ", "o", "u", "t", " ", "a", "f", "t", "e", "r", " ", "3", "0", " ", "s", "e", "c", "o", "n", "d", "s">>),
                 "timeout", "SecurityError", 0, <<>>)])

(***************************************************************************)
(* Inputs                                                                  *)
(***************************************************************************)

\* Lines the natural-language terminal reads in one session.
MaxTurns == 2

\* save_history calls of the history specification.
MaxAppends == 2

\* Length of the enumerated validator inputs.
MaxInputLen == 3

EmptyAliases == [n \in {} |-> <<>>]

\* Task texts of the command line.
CommandLineTasks == {<<>>, <<"l", "l">>, <<"l", "i", "s", "t">>, <<" ">>}

AliasNames == {<<"l", "l">>}

AliasTasks == {<<"l", "i", "s", "t">>, <<>>, <<" ">>}

\* --reuse arguments
IndexTexts == {<<"0">>, <<"1">>, <<"2">>, <<"3">>, <<"-", "1">>, <<"x">>}

\* Histories earlier runs have left in the file.
StoredHistories ==
    { <<>>,
      <<[input |-> <<"l", "i", "s", "t">>, command |-> <<"l", "s">>],
        [input |-> <<"a", "d", "m", "i", "n">>, command |-> <<"s", "u", "d", "o", " ", "l", "s">>],
        [input |-> <<"g", "o">>, command |-> <<"c", "d", " ", "/", "t", "m", "p">>]>> }

\* What the backend answers.
BackendOutcomes ==
    { Responded(<<"l", "s">>), Responded(<<"s", "u", "d", "o", " ", "l", "s">>), Responded(<<"r", "m", " ", "f">>), Responded(<<"c", "d", " ", "/", "t", "m", "p">>),
      Responded(<<"c", "d">>), Responded(<<"c", "d", "\t", "/", "t", "m", "p">>), Responded(<<"c", "d", " ", "/", "n", "o", "p", "e">>),
      Responded(<<Backtick, Backtick, Backtick, "b", "a", "s", "h", "\n", "l", "s", "\n", Backtick, Backtick, Backtick>>), Responded(<<Backtick, Backtick, Backtick>>), BackendFailed(<<"q", "u", "o", "t", "a">>),
      Responded(<<"l", "s", ";", " ", "i", "d">>), Responded(<<"e", "c", "h", "o", " ", "E", "r", "r", "o", "r">>) }

\* What the operator types at the confirmation prompt.
Answers == {<<"y">>, <<" ", "Y", "e", "s", " ">>, <<"n">>, <<>>}

\* What a spawn does.
Starts == {"exits", "never", "raises"}

ExitCodes == {0, 1}

StderrTexts == {<<>>, <<"o", "o", "p", "s", "\n">>}

\* Lines typed into the natural-language terminal.
NlLines ==
    { <<"l", "i", "s", "t">>, <<" ">>, <<"e", "x", "i", "t">>, <<"\"">>, <<"\"", " ", "\"">>, <<"a", ";", "b">>,
      Repeat("a", MAX_INPUT_LENGTH), Repeat("a", MAX_INPUT_LENGTH + 1),
      <<"\"">> \o Repeat("a", MAX_INPUT_LENGTH) }

\* Arguments of validate_input: every text over a small alphabet up to MaxInputLen
\* characters, and texts around the length limit.
InputAlphabet == {"a", " ", "\"", "(", ")", ";", "\\", "\n", "$"}

ValidatorInputs ==
    UNION {[1..n -> InputAlphabet] : n \in 0..MaxInputLen}
    \cup {Repeat("a", MAX_INPUT_LENGTH - 1), Repeat("a", MAX_INPUT_LENGTH),
          Repeat("a", MAX_INPUT_LENGTH + 1), Repeat("a", MAX_INPUT_LENGTH + 2),
          <<" ">> \o Repeat("a", MAX_INPUT_LENGTH), <<"\"">> \o Repeat("a", MAX_INPUT_LENGTH)}

\* A history of n entries, as n earlier runs leave it.
StoredEntry(i) == [input |-> <<"t", "a", "s", "k", " ">> \o <<Digits[(i % 10) + 1]>>, command |-> <<"l", "s">>]

StoredHistory(n) == [i \in 1..n |-> StoredEntry(i)]

HistoryInputs == {<<"l", "i", "s", "t">>, <<"g", "o">>}

HistoryCommands == {<<"l", "s">>, <<"c", "d", " ", "/", "t", "m", "p">>}

NotApplied == [kind |-> "none", value |-> <<>>, msg |-> "none"]

(***************************************************************************)
(* Initial states                                                          *)
(***************************************************************************)

\* Invocations of save_history that run at the same time.
Savers == {1, 2}

\* None is under way.
NoSavers == [p \in Savers |-> [pc |-> "none", entry |-> <<>>, local |-> <<>>]]

\* The locals of a process that has not started.
NoLocals ==
    /\ pc = "shell"
    /\ cwd = HOME
    /\ task = <<>>
    /\ user_input = <<>>
    /\ command = <<>>
    /\ attempt = 0
    /\ genCalls = 0
    /\ runCalls = 0
    /\ request = NoRequest
    /\ proc = NoProc
    /\ result = NoResult
    /\ report = "none"
    /\ turns = 0

\* No process runs.
NoProcess == NoLocals /\ savers = NoSavers

NoFunction ==
    /\ vInput = <<>>
    /\ vResult = NotApplied
    /\ vCalls = 0

\* linaix.py starts from the files as earlier runs left them; auto_run_safe is
\* either value.
Init ==
    /\ config \in [auto_run_safe : BOOLEAN, aliases : {EmptyAliases}]
    /\ history \in StoredHistories
    /\ NoProcess
    /\ NoFunction

(***************************************************************************)
(* Actions of src/linaix.py                                                *)
(***************************************************************************)

functionVars == <<vInput, vResult, vCalls>>

processVars == <<pc, cwd, task, user_input, command, attempt, genCalls, runCalls,
                 request, proc, result, turns, savers>>

\* linaix --add-alias NAME TASK
AddAlias(name, text) ==
    /\ pc = "shell"
    /\ config' = [config EXCEPT !.aliases = AliasAdded(@, name, text)]
    /\ report' = "AliasAdded"
    /\ UNCHANGED <<history, processVars, functionVars>>

\* linaix --remove-alias NAME
RemoveAlias(name) ==
    /\ pc = "shell"
    /\ name # <<>>
    /\ IF name \in DOMAIN config.aliases
       THEN /\ config' = [config EXCEPT !.aliases = AliasRemoved(@, name)]
            /\ report' = "AliasRemoved"
       ELSE /\ config' = config
            /\ report' = "AliasNotFound"
    /\ UNCHANGED <<history, processVars, functionVars>>

\* linaix TASK
MainTask(text) ==
    /\ pc = "shell"
    /\ \E st \in {main_task(Cur, config.aliases, text)} : Becomes(st)
    /\ UNCHANGED <<config, functionVars>>

\* linaix --reuse INDEX
MainReuse(index) ==
    /\ pc = "shell"
    /\ index # <<>>
    /\ \E st \in {main_reuse(Cur, index)} : Becomes(st)
    /\ UNCHANGED <<config, functionVars>>

\* The backend call of generate_command returns or raises.
BackendReturns(outcome) ==
    /\ pc = "generate"
    /\ \E st \in {main_after_generate(Cur, outcome)} : Becomes(st)
    /\ UNCHANGED <<config, functionVars>>

\* The operator answers the confirmation prompt of run_command_normal.
OperatorAnswers(answer, start) ==
    /\ pc = "confirm"
    /\ \E st \in {run_command_normal_answered(Cur, answer, start)} : Becomes(st)
    /\ UNCHANGED <<config, functionVars>>

\* The child of run_command_normal exits.  A child that never exits is waited
\* for without end: subprocess.run is given no timeout.
ChildExits(rc, stderr) ==
    /\ pc = "exec"
    /\ proc.duration = "exits"
    /\ \E st \in {run_command_normal_exited(Cur, rc, stderr)} : Becomes(st)
    /\ UNCHANGED <<config, functionVars>>

(***************************************************************************)
(* Actions of src/linaix_nl_terminal.py                                    *)
(***************************************************************************)

\* python linaix_nl_terminal.py
NlStart ==
    /\ pc = "shell"
    /\ \E st \in {[Cur EXCEPT !.pc = "nl_prompt", !.cwd = HOME, !.report = "Banner"]} : Becomes(st)
    /\ UNCHANGED <<config, functionVars>>

\* input(prompt) returns a line.
NlReadLine(line) ==
    /\ pc = "nl_prompt"
    /\ turns < MaxTurns
    /\ \E st \in {nl_read_line(Cur, line)} : Becomes(st)
    /\ UNCHANGED <<config, functionVars>>

\* input(prompt) raises EOFError or KeyboardInterrupt.
NlEndOfInput ==
    /\ pc = "nl_prompt"
    /\ \E st \in {Exit(Cur, "Goodbye")} : Becomes(st)
    /\ UNCHANGED <<config, functionVars>>

\* The backend call of generate_command returns or raises.
NlBackendReturns(outcome, start) ==
    /\ pc = "nl_generate"
    /\ \E st \in {nl_after_generate(Cur, outcome, start)} : Becomes(st)
    /\ UNCHANGED <<config, functionVars>>

\* The child of run_command exits within the timeout.
NlChildExits(rc, stderr) ==
    /\ pc = "nl_exec"
    /\ proc.duration = "exits"
    /\ \E st \in {run_command_exited(Cur, rc, stderr)} : Becomes(st)
    /\ UNCHANGED <<config, functionVars>>

\* The timeout of run_command's child expires.
NlChildTimesOut ==
    /\ pc = "nl_exec"
    /\ proc.duration = "never"
    /\ \E st \in {run_command_timed_out(Cur)} : Becomes(st)
    /\ UNCHANGED <<config, functionVars>>

\* src/linaix.py
Next ==
    \/ \E name \in AliasNames, text \in AliasTasks : AddAlias(name, text)
    \/ \E name \in AliasNames : RemoveAlias(name)
    \/ \E text \in CommandLineTasks : MainTask(text)
    \/ \E index \in IndexTexts : MainReuse(index)
    \/ \E outcome \in BackendOutcomes : BackendReturns(outcome)
    \/ \E answer \in Answers, start \in Starts : OperatorAnswers(answer, start)
    \/ \E rc \in ExitCodes, stderr \in StderrTexts : ChildExits(rc, stderr)

Spec == Init /\ [][Next]_vars

\* src/linaix_nl_terminal.py, a program of its own: it reads the same configuration
\* file and no history.
InitTerminal ==
    /\ config \in [auto_run_safe : BOOLEAN, aliases : {EmptyAliases}]
    /\ history = <<>>
    /\ NoProcess
    /\ NoFunction

NextTerminal ==
    \/ NlStart
    \/ \E line \in NlLines : NlReadLine(line)
    \/ NlEndOfInput
    \/ \E outcome \in BackendOutcomes, start \in Starts : NlBackendReturns(outcome, start)
    \/ \E rc \in ExitCodes, stderr \in StderrTexts : NlChildExits(rc, stderr)
    \/ NlChildTimesOut

SpecTerminal == InitTerminal /\ [][NextTerminal]_vars

(***************************************************************************)
(* save_history alone: any sequence of calls on a stored history           *)
(***************************************************************************)

InitHistory ==
    /\ config = [auto_run_safe |-> FALSE, aliases |-> EmptyAliases]
    /\ history \in {StoredHistory(n) : n \in 0..HISTORY_LIMIT}
    /\ NoProcess
    /\ NoFunction

SaveHistory(input, cmd) ==
    /\ vCalls < MaxAppends
    /\ history' = save_history(history, input, cmd)
    /\ vCalls' = vCalls + 1
    /\ UNCHANGED <<config, processVars, report, vInput, vResult>>

NextHistory == \E input \in HistoryInputs, cmd \in HistoryCommands : SaveHistory(input, cmd)

SpecHistory == InitHistory /\ [][NextHistory]_vars

(***************************************************************************)
(* validate_input alone, applied to one argument                           *)
(***************************************************************************)

InitValidate ==
    /\ config = [auto_run_safe |-> FALSE, aliases |-> EmptyAliases]
    /\ history = <<>>
    /\ NoProcess
    /\ vInput \in ValidatorInputs
    /\ vResult = NotApplied
    /\ vCalls = 0

ValidateInput ==
    /\ vCalls = 0
    /\ vResult' = validate_input(vInput)
    /\ vCalls' = 1
    /\ UNCHANGED <<config, history, processVars, report, vInput>>

NextValidate == ValidateInput

SpecValidate == InitValidate /\ [][NextValidate]_vars


(***************************************************************************)
(* The provider wrappers, each applied to one backend call                 *)
(***************************************************************************)

InitProvider ==
    /\ config = [auto_run_safe |-> FALSE, aliases |-> EmptyAliases]
    /\ history = <<>>
    /\ NoProcess
    /\ vInput \in GoogleCalls \cup OpenAICalls
    /\ vResult = NotApplied
    /\ vCalls = 0

GenerateWithGoogle ==
    /\ vCalls = 0
    /\ vInput.provider = "google"
    /\ vResult' = generate_with_google(vInput)
    /\ vCalls' = 1
    /\ UNCHANGED <<config, history, processVars, report, vInput>>

GenerateWithOpenAI ==
    /\ vCalls = 0
    /\ vInput.provider = "openai"
    /\ vResult' = generate_with_openai(vInput)
    /\ vCalls' = 1
    /\ UNCHANGED <<config, history, processVars, report, vInput>>

NextProvider == GenerateWithGoogle \/ GenerateWithOpenAI

SpecProvider == InitProvider /\ [][NextProvider]_vars

(***************************************************************************)
(* validate_command alone, applied to one argument                         *)
(***************************************************************************)

\* First words, as written: blocked, dangerous, safe, in none of the sets, in
\* upper case, quoted.
CommandWords ==
    { <<"s", "u", "d", "o">>, <<"S", "U", "D", "O">>, <<"S", "u">>, <<"p", "k", "e", "x", "e", "c">>, <<"r", "m">>, <<"R", "M">>, <<"l", "s">>, <<"f", "r", "o", "b", "n", "i", "c", "a", "t", "e">>, <<"'", "s", "u", "d", "o", "'">>,
      <<"s", "\"", "u", "\"", "d", "o">>, <<"s", "u", "d", "o", "e", "r">>, <<"'", "'">> }

CommandPads == {<<>>, <<" ">>, <<"\t">>}

CommandArguments == {<<>>, <<" ", "-", "l">>, <<" ", "'", "x">>, <<" ", "\"", "a", " ", "b", "\"">>, <<" ", "s", "u", "d", "o">>, <<" ", ";", " ", "s", "u">>, <<"\\">>}

CommandEnds == {<<>>, <<" ">>, <<"\n">>}

\* Arguments of validate_command: the words above with leading and trailing
\* white space and arguments, and commands around the length limit.
CommandInputs ==
    { pad \o word \o arguments \o end :
        pad \in CommandPads, word \in CommandWords,
        arguments \in CommandArguments, end \in CommandEnds }
    \cup { <<>>, <<" ">>, <<"'">>,
           Repeat("a", MAX_COMMAND_LENGTH - 1), Repeat("a", MAX_COMMAND_LENGTH),
           Repeat("a", MAX_COMMAND_LENGTH + 1),
           <<"l", "s">> \o Repeat(" ", MAX_COMMAND_LENGTH - 2),
           <<"l", "s">> \o Repeat(" ", MAX_COMMAND_LENGTH - 1),
           <<"s", "u", " ">> \o Repeat("a", MAX_COMMAND_LENGTH - 3),
           <<"'">> \o Repeat("a", MAX_COMMAND_LENGTH),
           Repeat(" ", MAX_COMMAND_LENGTH + 1) }

InitCommand ==
    /\ config = [auto_run_safe |-> FALSE, aliases |-> EmptyAliases]
    /\ history = <<>>
    /\ NoProcess
    /\ vInput \in CommandInputs
    /\ vResult = NotApplied
    /\ vCalls = 0

ValidateCommand ==
    /\ vCalls = 0
    /\ vResult' = validate_command(vInput)
    /\ vCalls' = 1
    /\ UNCHANGED <<config, history, processVars, report, vInput>>

NextCommand == ValidateCommand

SpecCommand == InitCommand /\ [][NextCommand]_vars

(***************************************************************************)
(* save_history called by two invocations at the same time                 *)
(***************************************************************************)

localVars == <<pc, cwd, task, user_input, command, attempt, genCalls, runCalls,
               request, proc, result, report, turns>>

HistoryEntries == [input : HistoryInputs, command : HistoryCommands]

\* Two invocations are about to record different entries.
InitConcurrent ==
    /\ config = [auto_run_safe |-> FALSE, aliases |-> EmptyAliases]
    /\ history \in {StoredHistory(n) : n \in {0, 1, HISTORY_LIMIT - 1, HISTORY_LIMIT}}
    /\ NoLocals
    /\ NoFunction
    /\ savers \in [Savers -> [pc : {"start"}, entry : HistoryEntries, local : {<<>>}]]
    /\ savers[1].entry # savers[2].entry

\* save_history reads the file (lines 90-93).
SaveHistoryReads(p) ==
    /\ savers[p].pc = "start"
    /\ savers' = [savers EXCEPT ![p].pc = "loaded", ![p].local = history]
    /\ UNCHANGED <<config, history, localVars, functionVars>>

\* save_history appends its entry to what it read and writes the file (lines 94-96).
SaveHistoryWrites(p) ==
    /\ savers[p].pc = "loaded"
    /\ history' = save_history(savers[p].local, savers[p].entry.input, savers[p].entry.command)
    /\ savers' = [savers EXCEPT ![p].pc = "done"]
    /\ UNCHANGED <<config, localVars, functionVars>>

NextConcurrent == \E p \in Savers : SaveHistoryReads(p) \/ SaveHistoryWrites(p)

SpecConcurrent == InitConcurrent /\ [][NextConcurrent]_vars

(***************************************************************************)
(* Properties                                                              *)
(***************************************************************************)

\* C1: a command whose lowercased first token is in the blocked set is never
\* passed to a subprocess, whatever auto_run_safe is and whatever the operator
\* answers.  Stated of every spawn: the command of a running child is not blocked.
C1_BlockedNeverSpawned ==
    proc.running => base_command(proc.cmd) \notin BLOCKED_COMMANDS

\* C2: a command whose first token is in the dangerous set is executed only if
\* auto_run_safe is enabled or the operator answered y/yes to a confirmation
\* prompt.
C2_DangerousNeedsConsent ==
    (proc.running /\ base_command(proc.cmd) \in DANGEROUS_COMMANDS)
        => (config.auto_run_safe \/ proc.confirmed)

\* C3: for one task of the direct mode, generate_command is called at most twice
\* and run_command_normal at most twice, and from the second execution the
\* pipeline goes nowhere but to its end: no further synthesis follows it.
C3_AtMostTwoAttempts ==
    /\ [](genCalls <= 2 /\ runCalls <= 2)
    /\ [][(runCalls = 2) => (pc' \in {"confirm", "exec", "exited"} /\ genCalls' <= genCalls)]_vars

\* The second execution of a task is running: the first one failed and the
\* alternative was synthesized, confirmed and spawned.
C3_SecondExecution ==
    pc = "exec" /\ attempt = 2 /\ genCalls = 2 /\ runCalls = 2 /\ proc.running

\* C4: the stored history never holds more than HISTORY_LIMIT entries, and an
\* append to a history of HISTORY_LIMIT entries evicts the oldest one: the
\* other entries move up by one, the new entry is last, the length stays.
C4_HistoryBounded ==
    /\ [](Len(history) <= HISTORY_LIMIT)
    /\ [][(Len(history) = HISTORY_LIMIT)
            => (/\ Len(history') = HISTORY_LIMIT
                /\ SubSeq(history', 1, HISTORY_LIMIT - 1) = Tail(history)
                /\ history'[HISTORY_LIMIT].input \in HistoryInputs
                /\ history'[HISTORY_LIMIT].command \in HistoryCommands)]_vars

\* An append was made to a full history: the entry that was second is now first
\* and an appended entry is last.
C4_Evicted ==
    /\ vCalls > 0
    /\ Len(history) = HISTORY_LIMIT
    /\ history[1] = StoredEntry(2)
    /\ history[HISTORY_LIMIT].input \in HistoryInputs

\* C5: every executor runs its child under the configured timeout, so that a
\* child that never exits is terminated and no executor waits for it forever.
C5_EveryExecutionTimesOut ==
    proc.running => (proc.timeout = COMMAND_TIMEOUT /\ proc.timeout > 0)

\* C6: for a command whose first word is cd (a bare cd and cd followed by a tab
\* included) the executor spawns no subprocess: what it returns comes from the
\* directory change.
C6_CdNeverSpawns ==
    (base_command(command) = <<"c", "d">>)
        => (~proc.running /\ result.cause \in {"none", "chdir"})

C8_AliasRoundTrip ==
    (pc = "generate" /\ attempt = 1 /\ task \in DOMAIN config.aliases)
        => (request.made /\ request.task = config.aliases[task])

\* C9: validate_input raises ValidationError for every input that is empty after
\* trimming, and what it returns is never empty after trimming.
C9_BlankRejected ==
    (vCalls = 1)
        => (/\ IsBlank(vInput) => vResult.kind = "ValidationError"
            /\ vResult.kind = "ok" => ~IsBlank(vResult.value))

\* C10: for a line longer than MAX_INPUT_LENGTH characters validate_input raises
\* ValidationError and returns no value, and no synthesis call is made for it:
\* the terminal reports the invalid input and reads the next line.
C10_TooLongRejected ==
    (Len(user_input) > MAX_INPUT_LENGTH)
        => (/\ validate_input(user_input).kind = "ValidationError"
            /\ validate_input(user_input).value = <<>>
            /\ ~request.made
            /\ pc # "nl_generate"
            /\ report = "InvalidInput")

\* The terminal has read a line over the limit whose sanitized text or prefix
\* would be within it, and rejected it.
C10_TooLongLineRead ==
    /\ turns > 0
    /\ Len(user_input) = MAX_INPUT_LENGTH + 1
    /\ Len(Sanitize(user_input)) = MAX_INPUT_LENGTH
    /\ pc = "nl_prompt"
    /\ report = "InvalidInput"

\* C11: every attempted (task, command) pair is in the history whatever its
\* execution gave: once an executor was called for a command, the history holds
\* the pair of the task and that command.
C11_AttemptsRecorded ==
    (runCalls > 0 /\ command # <<>>)
        => (\E i \in DOMAIN history :
                history[i] = [input |-> user_input, command |-> command])

\* C12: every subprocess spawned for a command receives the tokenized argument
\* vector of the command and never the raw string for a shell to interpret.
C12_SpawnsGetArgumentVector ==
    proc.running
        => (/\ ~proc.shell
            /\ proc.argv # <<>>
            /\ proc.argv = shlex_split(proc.cmd).parts)

\* C13: generate_with_google and generate_with_openai each return a non-empty
\* text or raise ProviderError; no other exception leaves them, whatever fails
\* in the backend call.
C13_OnlyProviderError ==
    (vCalls = 1)
        => \/ vResult.kind = "ok" /\ vResult.value # <<>>
           \/ vResult.kind = "ProviderError"

\* Neither interface of the OpenAI library imports: the ImportError raised inside
\* the except ImportError block has left the function as ProviderError.
C13_MissingLibraryWrapped ==
    /\ vCalls = 1
    /\ vInput.provider = "openai"
    /\ vInput.library = "missing"
    /\ vResult = Raise("ProviderError", "ImportError")

C15_ClassificationUnique ==
    (vCalls = 1) => Cardinality(Classifications(base_command(vInput))) <= 1

\* C16: a string validate_input returns holds none of < > " | & ` $ ; and no
\* backslash, and no ( followed on the same line by ); an input in which one of
\* these is left after the blacklisted characters were removed is rejected.
C16_ReturnedTextIsClean ==
    (vCalls = 1)
        => LET out  == vResult.value
               left == SelectSeq(Strip(vInput),
                           LAMBDA c : c \notin {"<", ">", "\"", "|", "&", Backtick, "$"})
               Spans(s) == \E i \in 1..Len(s), j \in 1..Len(s) :
                               /\ i < j
                               /\ s[i] = "("
                               /\ s[j] = ")"
                               /\ \A k \in i..j : s[k] # "\n"
               Marks(s) == \E i \in 1..Len(s) : s[i] \in {";", "\\"}
           IN  /\ vResult.kind = "ok"
                    => (/\ \A i \in 1..Len(out) :
                               out[i] \notin {"<", ">", "\"", "|", "&", Backtick, "$", ";", "\\"}
                        /\ ~Spans(out))
               /\ (vInput # <<>> /\ Len(vInput) <= MAX_INPUT_LENGTH /\ (Spans(left) \/ Marks(left)))
                    => vResult.kind = "ValidationError"

\* validate_input was applied to a text that holds a parenthesis pair once its
\* quote is removed, and rejected it.
C16_PairRejected ==
    /\ vCalls = 1
    /\ vInput = <<"(", "\"", ")">>
    /\ vResult.kind = "ValidationError"

\* C17: in the direct mode the first synthesis carries no error context, and the
\* second one is made only after the first execution failed, with the error text
\* of that execution as error context and the correction clause in its prompt.
C17_RetryCarriesError ==
    /\ (pc = "generate" /\ attempt = 1)
           => (genCalls = 1 /\ request.error_context = <<>> /\ ~request.clause)
    /\ (pc = "generate" /\ attempt = 2)
           => (/\ genCalls = 2
               /\ runCalls = 1
               /\ result.cause # "none"
               /\ ~result.success
               /\ request.error_context = result.error
               /\ request.clause)

\* C18: when two invocations of save_history each append one entry at the same
\* time, both entries are in the history once both have written, however their
\* reads and writes interleave.
C18_NoLostUpdate ==
    (\A p \in Savers : savers[p].pc = "done")
        => (\A p \in Savers : \E i \in DOMAIN history : history[i] = savers[p].entry)

\* C19: in the direct mode and in history replay no effect of a command takes
\* place without the operator's y or yes to the confirmation prompt for it: a
\* step that spawns a subprocess or changes the working directory is the step
\* that follows the operator's answer.
C19_NoEffectWithoutConsent ==
    [][(\/ proc'.running /\ ~proc.running
        \/ result' # result /\ result'.cause = "chdir" /\ result'.success)
            => (pc = "confirm" /\ (proc'.running => proc'.confirmed))]_vars

\* C20: in the direct mode what the backend returned is treated as a synthesis
\* failure exactly when the backend call failed or the cleaned command is empty;
\* any other command, whatever its text, is recorded in the history and goes on
\* to the confirmation and execution step.
C20_OnlyFailuresAreFailures ==
    (pc = "generate")
        => \A outcome \in BackendOutcomes :
               LET after  == main_after_generate(Cur, outcome)
                   failed == ~outcome.ok \/ CleanCommand(outcome.text) = <<>>
               IN  /\ failed <=> (after.pc = "exited" /\ after.report = "SynthesisError")
                   /\ failed => after.history = history
                   /\ ~failed
                        => (/\ after.history # <<>>
                            /\ after.history[Len(after.history)]
                                   = [input |-> user_input, command |-> CleanCommand(outcome.text)]
                            /\ (after.runCalls = runCalls + 1 \/ after.pc = "exited"))

\* C21: get_history_command returns the command and task of the entry at position
\* index exactly when index is the text of an integer i with 0 <= i < len(history);
\* for any other index it returns (None, None), and replay reports an invalid
\* history index and executes nothing.
C21_OnlyValidIndexReplays ==
    (pc = "shell")
        => \A index \in IndexTexts :
               LET i     == ParseInt(index)
                   valid == i.ok /\ i.value >= 0 /\ i.value < Len(history)
                   got   == get_history_command(history, index)
                   after == main_reuse(Cur, index)
               IN  /\ valid => (/\ got.found
                                /\ got.command = history[i.value + 1].command
                                /\ got.input = history[i.value + 1].input)
                   /\ ~valid => (/\ ~got.found
                                 /\ after.pc = "exited"
                                 /\ after.report = "InvalidIndex"
                                 /\ after.result = NoResult)

\* C22: validate_input is idempotent on what it accepts: applied to a text it
\* returned, it succeeds and returns that text again.
C22_ValidateInputIdempotent ==
    (vCalls = 1 /\ vResult.kind = "ok")
        => validate_input(vResult.value) = Ok(vResult.value)
====
